---- MODULE Spec2Model ----
(***************************************************************************)
(* A model of the AI craft recognition service (src/ai-services):          *)
(*   - ModelLoader            models/model_loader.py                       *)
(*   - CraftClassifierModel   models/craft_classifier.py                   *)
(*   - ImagePreprocessor      utils/image_preprocessor.py                  *)
(*   - the /predict handler   app.py                                       *)
(* Four specifications share the module:                                   *)
(*   Spec      callers of one ModelLoader interleaved statement by         *)
(*             statement on a cold registry (load_model / get_model)       *)
(*   SpecSeq   one caller of one ModelLoader (load / get / reload)         *)
(*   SpecClf   one CraftClassifierModel (load / predict / get_info)        *)
(*   SpecReq   one POST /predict request through the handler               *)
(***************************************************************************)
EXTENDS Integers, Sequences, FiniteSets, TLC

VARIABLES
    self_model,   \* ModelLoader._model: 0 is None, otherwise an instance id
    constructed,  \* number of CraftClassifierModel() constructions so far
    is_loaded,    \* instance id -> CraftClassifierModel.is_loaded
    loadCalls,    \* instance id -> number of load() calls made on it
    pc,           \* caller -> the statement of model_loader.py it is at
    op,           \* caller -> the ModelLoader method it is running
    atCall,       \* caller -> registry facts recorded when the call began
    history,      \* completed ModelLoader calls, in order of return
    clf,          \* the classifier under SpecClf
    req           \* the request under SpecReq

vars == <<self_model, constructed, is_loaded, loadCalls, pc, op, atCall,
          history, clf, req>>

regVars == <<self_model, constructed, is_loaded, loadCalls, pc, op, atCall,
             history>>

----------------------------------------------------------------------------
(* Bounds *)

NumCallers == 2
MaxCalls == 3
MaxInstances == 3

Callers == 1..NumCallers
Instances == 1..MaxInstances
None == 0

----------------------------------------------------------------------------
(* CraftClassifierModel: the fields get_info reports *)

model_version == "1.0.0-placeholder"

classes == <<"pottery", "sculpture", "textile", "woodwork",
             "metalwork", "jewelry", "painting", "embroidery">>

\* CraftClassifierModel.get_info on an object whose is_loaded is `loaded`
get_info(loaded) ==
    [version |-> model_version,
     classes |-> classes,
     num_classes |-> Len(classes),
     is_loaded |-> loaded,
     type |-> "placeholder"]

\* get_info of no object (the slot was None)
NoInfo == [version |-> "", classes |-> <<>>, num_classes |-> 0,
           is_loaded |-> FALSE, type |-> ""]

----------------------------------------------------------------------------
(* ModelLoader *)

NoCall == [slot |-> None, constructed |-> 0, loads |-> 0, loadsEnded |-> 0]

RECURSIVE SumTo(_, _)
SumTo(f, n) == IF n = 0 THEN 0 ELSE f[n] + SumTo(f, n - 1)

\* load() calls made so far, over all instances
TotalLoads == SumTo(loadCalls, MaxInstances)

\* load_model calls that have ended so far
LoadsEnded ==
    Cardinality({i \in 1..Len(history) : history[i].op = "load_model"})

CallsStarted ==
    Len(history) + Cardinality({t \in Callers : pc[t] # "idle"})

\* ModelLoader.__init__ and a process in which nothing was constructed yet
RegistryInit ==
    /\ self_model = None
    /\ constructed = 0
    /\ is_loaded = [i \in Instances |-> FALSE]
    /\ loadCalls = [i \in Instances |-> 0]
    /\ pc = [t \in Callers |-> "idle"]
    /\ op = [t \in Callers |-> "none"]
    /\ atCall = [t \in Callers |-> NoCall]
    /\ history = <<>>

\* A caller enters load_model, get_model or reload_model
FirstStatement(o) ==
    CASE o = "load_model" -> "L18"
      [] o = "get_model" -> "G25"
      [] o = "reload_model" -> "R31"

Call(t, o) ==
    /\ pc[t] = "idle"
    /\ CallsStarted < MaxCalls
    /\ pc' = [pc EXCEPT ![t] = FirstStatement(o)]
    /\ op' = [op EXCEPT ![t] = o]
    /\ atCall' = [atCall EXCEPT ![t] =
                    [slot |-> self_model, constructed |-> constructed,
                     loads |-> TotalLoads, loadsEnded |-> LoadsEnded]]
    /\ UNCHANGED <<self_model, constructed, is_loaded, loadCalls, history,
                   clf, req>>

\* The call of caller t ends: it returns instance `val`, or raises `exc`
\* (val is None then; exc is "none" for a normal return). info is get_info()
\* of the returned instance, infoOfReplaced that of the instance the slot
\* held when the call began, both taken as the call returns.
Return(t, val, exc) ==
    /\ history' = Append(history,
           [op |-> op[t], val |-> val, exc |-> exc,
            loaded |-> IF val \in Instances THEN is_loaded[val] ELSE FALSE,
            info |-> IF val \in Instances THEN get_info(is_loaded[val])
                                          ELSE NoInfo,
            infoOfReplaced |-> IF atCall[t].slot \in Instances
                              THEN get_info(is_loaded[atCall[t].slot])
                              ELSE NoInfo,
            slotAtCall |-> atCall[t].slot,
            constructedAtCall |-> atCall[t].constructed,
            loadsAtCall |-> atCall[t].loads,
            loadsEndedAtCall |-> atCall[t].loadsEnded,
            constructedAtReturn |-> constructed,
            loadsAtReturn |-> TotalLoads])
    /\ pc' = [pc EXCEPT ![t] = "idle"]
    /\ op' = [op EXCEPT ![t] = "none"]
    /\ atCall' = [atCall EXCEPT ![t] = NoCall]

\* The condition of line 18
AlwaysEmpty(slot) == TRUE
SlotIsEmpty(slot) == slot = None

\* load_model, line 18: if self._model is None
LoadModelTest(t) ==
    /\ pc[t] = "L18"
    /\ pc' = [pc EXCEPT ![t] = IF SlotIsEmpty(self_model) THEN "L19" ELSE "L21"]
    /\ UNCHANGED <<self_model, constructed, is_loaded, loadCalls, op, atCall,
                   history, clf, req>>

\* What line 19 leaves in the slot after constructing instance `new`
StoreForgotten(slot, new) == slot
Stored(slot, new) == new

\* load_model, line 19: self._model = CraftClassifierModel()
LoadModelConstruct(t) ==
    /\ pc[t] = "L19"
    /\ constructed < MaxInstances
    /\ constructed' = constructed + 1
    /\ is_loaded' = [is_loaded EXCEPT ![constructed + 1] = FALSE]
    /\ self_model' = Stored(self_model, constructed + 1)
    /\ pc' = [pc EXCEPT ![t] = "L20"]
    /\ UNCHANGED <<loadCalls, op, atCall, history, clf, req>>

\* CraftClassifierModel.load: is_loaded after the call
LoadSkipped(loaded) == loaded
load(loaded) == TRUE

\* load_model, line 20: self._model.load(), on whatever the slot holds now
LoadModelLoad(t) ==
    /\ pc[t] = "L20"
    /\ IF self_model = None
          THEN /\ Return(t, None, "AttributeError")
               /\ UNCHANGED <<is_loaded, loadCalls>>
          ELSE /\ is_loaded' = [is_loaded EXCEPT
                                  ![self_model] = load(is_loaded[self_model])]
               /\ loadCalls' = [loadCalls EXCEPT ![self_model] = @ + 1]
               /\ pc' = [pc EXCEPT ![t] = "L21"]
               /\ UNCHANGED <<op, atCall, history>>
    /\ UNCHANGED <<self_model, constructed, clf, req>>

\* load_model, line 21: return self._model
LoadModelReturn(t) ==
    /\ pc[t] = "L21"
    /\ Return(t, self_model, "none")
    /\ UNCHANGED <<self_model, constructed, is_loaded, loadCalls, clf, req>>

\* get_model, lines 25-26: if self._model is None: raise RuntimeError
GetModelTest(t) ==
    /\ pc[t] = "G25"
    /\ IF self_model = None
          THEN Return(t, None, "RuntimeError")
          ELSE /\ pc' = [pc EXCEPT ![t] = "G27"]
               /\ UNCHANGED <<op, atCall, history>>
    /\ UNCHANGED <<self_model, constructed, is_loaded, loadCalls, clf, req>>

\* get_model, line 27: return self._model
GetModelReturn(t) ==
    /\ pc[t] = "G27"
    /\ Return(t, self_model, "none")
    /\ UNCHANGED <<self_model, constructed, is_loaded, loadCalls, clf, req>>

\* What line 31 leaves in the slot
SlotKept(slot) == slot
Cleared(slot) == None

\* reload_model, line 31: self._model = None; line 32 then runs load_model
ReloadModelClear(t) ==
    /\ pc[t] = "R31"
    /\ self_model' = Cleared(self_model)
    /\ pc' = [pc EXCEPT ![t] = "L18"]
    /\ UNCHANGED <<constructed, is_loaded, loadCalls, op, atCall, history,
                   clf, req>>

Step(t) ==
    \/ LoadModelTest(t)
    \/ LoadModelConstruct(t)
    \/ LoadModelLoad(t)
    \/ LoadModelReturn(t)
    \/ GetModelTest(t)
    \/ GetModelReturn(t)

----------------------------------------------------------------------------
(* CraftClassifierModel.predict *)

\* Bounds: the shuffles and the draws of random.uniform that are explored
MaxShift == 2
DrawSteps == 2
MaxLoads == 2

\* round(confidence, 4): confidences are returned in units of 10^-4
ConfidenceDigits == 4
\* The running budget is kept two digits finer than the rounded result
RoundUnit == 10 ^ 2
One == RoundUnit * 10 ^ ConfidenceDigits

\* The lower end of every draw, 0.01 (line 70)
MinConfidence == One \div 100

\* The orders random.shuffle is explored with: the class list rotated by
\* 0..MaxShift places, and each of these reversed
Rotate(seq, k) ==
    [i \in 1..Len(seq) |-> seq[((i - 1 + k) % Len(seq)) + 1]]
Reverse(seq) ==
    [i \in 1..Len(seq) |-> seq[Len(seq) + 1 - i]]
ShuffleOrders ==
    {Rotate(classes, k) : k \in 0..MaxShift}
       \cup {Reverse(Rotate(classes, k)) : k \in 0..MaxShift}

\* One choice of random() per non-last label: k stands for k / DrawSteps
DrawChoices == [1..(Len(classes) - 1) -> 0..DrawSteps]

\* random.uniform(a, b) = a + (b - a) * random(), with random() = k/DrawSteps
uniform(a, b, k) == a + ((b - a) * k) \div DrawSteps

\* Line 69: remaining_confidence * (0.8 if i == 0 else 0.3); i counts from 1
max_confidence_flat(i, remaining) == (remaining * 8) \div 10
max_confidence(i, remaining) ==
    (remaining * (IF i = 1 THEN 8 ELSE 3)) \div 10

\* Line 75: round(confidence, 4), to the nearest multiple of 10^-4 (a tie,
\* which Python rounds on the binary value, goes up here)
round4(confidence) == (confidence + RoundUnit \div 2) \div RoundUnit

\* Lines 63-76: the loop over the shuffled classes; `remaining` is
\* remaining_confidence on entry to iteration i
RECURSIVE Generate(_, _, _, _)
Generate(i, remaining, shuffled, draws) ==
    IF i > Len(shuffled) THEN <<>>
    ELSE IF i = Len(shuffled)
       THEN <<[class |-> shuffled[i], confidence |-> round4(remaining)]>>
       ELSE LET confidence ==
                   uniform(MinConfidence, max_confidence(i, remaining), draws[i])
            IN  <<[class |-> shuffled[i], confidence |-> round4(confidence)]>>
                  \o Generate(i + 1, remaining - confidence, shuffled, draws)

\* remaining_confidence when the last label is reached (what it receives,
\* before rounding)
RECURSIVE LastRemaining(_, _, _, _)
LastRemaining(i, remaining, shuffled, draws) ==
    IF i >= Len(shuffled) THEN remaining
    ELSE LastRemaining(i + 1,
            remaining - uniform(MinConfidence, max_confidence(i, remaining),
                                draws[i]),
            shuffled, draws)

\* Line 79: predictions.sort(key=confidence, reverse=True), a stable sort:
\* entries of equal confidence keep their order
RECURSIVE InsertDesc(_, _)
InsertDesc(sorted, x) ==
    IF sorted = <<>> THEN <<x>>
    ELSE IF Head(sorted).confidence >= x.confidence
            THEN <<Head(sorted)>> \o InsertDesc(Tail(sorted), x)
            ELSE <<x>> \o sorted

RECURSIVE SortFrom(_, _, _)
SortFrom(sorted, seq, i) ==
    IF i > Len(seq) THEN sorted
    ELSE SortFrom(InsertDesc(sorted, seq[i]), seq, i + 1)

Unsorted(predictions) == predictions
SortByConfidence(predictions) == SortFrom(<<>>, predictions, 1)

\* Lines 56-85: what a predict() on a loaded model returns
PredictResult(shuffled, draws) ==
    LET predictions == SortByConfidence(Generate(1, One, shuffled, draws))
    IN  [predictions |-> predictions,
         top_prediction |-> predictions[1],
         model_version |-> model_version]

NoResult == [predictions |-> <<>>,
             top_prediction |-> [class |-> "", confidence |-> 0],
             model_version |-> ""]

\* The outcome of the most recent call on the classifier object
NoOutcome == [op |-> "none", exc |-> "none", result |-> NoResult,
              shuffled |-> <<>>, remaining |-> 0, loadsAtCall |-> 0,
              info |-> NoInfo]

\* CraftClassifierModel.__init__ (is_loaded = False); loads counts load()
\* calls made on the object
ClfInit ==
    clf = [is_loaded |-> FALSE, loads |-> 0, last |-> NoOutcome]

\* The values clf and req keep under the specifications that do not use them
ClfIdle == [is_loaded |-> FALSE, loads |-> 0, last |-> NoOutcome]
ReqIdle == [pc |-> "none"]

\* CraftClassifierModel.load()
ClfLoad ==
    /\ clf.loads < MaxLoads
    /\ clf' = [is_loaded |-> load(clf.is_loaded),
               loads |-> clf.loads + 1,
               last |-> [NoOutcome EXCEPT !.op = "load",
                                          !.loadsAtCall = clf.loads]]
    /\ UNCHANGED <<regVars, req>>

\* CraftClassifierModel.predict(image_data), lines 46-47: not loaded
ClfPredictNotLoaded ==
    /\ clf.last.op # "predict"
    /\ ~clf.is_loaded
    /\ clf' = [clf EXCEPT !.last =
                  [NoOutcome EXCEPT !.op = "predict",
                                    !.exc = "RuntimeError",
                                    !.loadsAtCall = clf.loads]]
    /\ UNCHANGED <<regVars, req>>

\* CraftClassifierModel.predict(image_data), lines 56-85: loaded
ClfPredict ==
    /\ clf.last.op # "predict"
    /\ clf.is_loaded
    /\ \E shuffled \in ShuffleOrders, draws \in DrawChoices :
          clf' = [clf EXCEPT !.last =
                    [NoOutcome EXCEPT
                       !.op = "predict",
                       !.result = PredictResult(shuffled, draws),
                       !.shuffled = shuffled,
                       !.remaining = LastRemaining(1, One, shuffled, draws),
                       !.loadsAtCall = clf.loads]]
    /\ UNCHANGED <<regVars, req>>

\* CraftClassifierModel.get_info()
ClfGetInfo ==
    /\ clf.last.op # "get_info"
    /\ clf' = [clf EXCEPT !.last =
                  [NoOutcome EXCEPT !.op = "get_info",
                                    !.info = get_info(clf.is_loaded),
                                    !.loadsAtCall = clf.loads]]
    /\ UNCHANGED <<regVars, req>>

InitClf ==
    /\ RegistryInit
    /\ ClfInit
    /\ req = ReqIdle

NextClf ==
    \/ ClfLoad
    \/ ClfPredictNotLoaded
    \/ ClfPredict
    \/ ClfGetInfo

SpecClf == InitClf /\ [][NextClf]_vars

----------------------------------------------------------------------------
(* Spec: concurrent load_model / get_model calls on a cold registry *)

Init ==
    /\ RegistryInit
    /\ clf = ClfIdle
    /\ req = ReqIdle

Next ==
    \E t \in Callers :
        \/ Call(t, "load_model")
        \/ Call(t, "get_model")
        \/ Step(t)

Spec == Init /\ [][Next]_vars

----------------------------------------------------------------------------
(* SpecSeq: one caller, calls made one after another *)

SeqNext ==
    \/ Call(1, "load_model")
    \/ Call(1, "get_model")
    \/ Call(1, "reload_model")
    \/ ReloadModelClear(1)
    \/ Step(1)

SpecSeq == Init /\ [][SeqNext]_vars

----------------------------------------------------------------------------
(* Claims about ModelLoader *)

Ended == 1..Len(history)

\* C1: on a cold registry, with load_model calls interleaved statement by
\* statement, once a load_model call has ended the slot is occupied, and
\* every get_model call begun after that returns an instance and does not
\* raise.
C1_SlotOccupiedAfterLoads ==
    /\ LoadsEnded > 0 => self_model \in Instances
    /\ \A i \in Ended :
          (history[i].op = "get_model" /\ history[i].loadsEndedAtCall > 0)
             => (history[i].exc = "none" /\ history[i].val \in Instances)

\* C1 witness: two load_model calls both saw the empty slot and both
\* constructed, both have returned, and a get_model begun after them
\* returned an instance.
C1_Witness ==
    /\ constructed = 2
    /\ \A t \in Callers : pc[t] = "idle"
    /\ \E i \in Ended :
          /\ history[i].op = "get_model"
          /\ history[i].loadsEndedAtCall = 2
          /\ history[i].val \in Instances

\* C10: every instance load_model or get_model returns has is_loaded = TRUE
\* at the moment it is returned, in every interleaving of the calls.
C10_ReturnedModelIsLoaded ==
    \A i \in Ended : history[i].val \in Instances => history[i].loaded

\* C2: one caller. A load_model call that finds the slot empty constructs
\* one instance, calls load() once and returns the new instance; one that
\* finds the slot occupied returns the stored instance, constructs nothing
\* and calls load() on nothing; load_model calls with no reload_model between
\* them return the same instance.
C2_LoadModelMemoized ==
    /\ \A i \in Ended :
          history[i].op = "load_model" =>
             IF history[i].slotAtCall = None
                THEN /\ history[i].constructedAtReturn
                           = history[i].constructedAtCall + 1
                     /\ history[i].loadsAtReturn = history[i].loadsAtCall + 1
                     /\ history[i].val = history[i].constructedAtReturn
                ELSE /\ history[i].val = history[i].slotAtCall
                     /\ history[i].constructedAtReturn
                           = history[i].constructedAtCall
                     /\ history[i].loadsAtReturn = history[i].loadsAtCall
    /\ \A i, j \in Ended :
          (/\ i < j
           /\ history[i].op = "load_model"
           /\ history[j].op = "load_model"
           /\ \A k \in i..j : history[k].op # "reload_model")
             => history[i].val = history[j].val

\* C2 witness: load_model on the cold registry, then load_model again, with a
\* get_model between them.
C2_Witness ==
    /\ Len(history) = 3
    /\ history[1].op = "load_model" /\ history[1].slotAtCall = None
    /\ history[2].op = "get_model"
    /\ history[3].op = "load_model" /\ history[3].val = history[1].val

\* C3: one caller. reload_model on a slot that holds M returns an instance
\* that is not M and has the get_info content M had; the slot then holds the
\* returned instance, and a get_model that follows returns it.
C3_ReloadGivesFreshEqualModel ==
    \A i \in Ended :
       (history[i].op = "reload_model" /\ history[i].slotAtCall \in Instances)
          => /\ history[i].val \in Instances
             /\ history[i].val # history[i].slotAtCall
             /\ history[i].info = history[i].infoOfReplaced
             /\ get_info(is_loaded[history[i].val])
                  = get_info(is_loaded[history[i].slotAtCall])
             /\ (i = Len(history) /\ pc[1] = "idle")
                  => self_model = history[i].val
             /\ (i < Len(history) /\ history[i + 1].op = "get_model")
                  => (/\ history[i + 1].exc = "none"
                      /\ history[i + 1].val = history[i].val)

\* C3 witness: load_model, reload_model on the occupied slot, then get_model.
C3_Witness ==
    /\ Len(history) = 3
    /\ history[1].op = "load_model"
    /\ history[2].op = "reload_model" /\ history[2].slotAtCall = history[1].val
    /\ history[3].op = "get_model" /\ history[3].val \in Instances

----------------------------------------------------------------------------
(* ImagePreprocessor and the POST /predict handler *)

\* Bound: the longest image side explored is MaxFactor * max_dimension + 1
MaxFactor == 2

\* app.py line 16: ImagePreprocessor(target_size=(224, 224), max_dimension=1024)
target_side == 224
max_dimension == 1024
target_size == <<target_side, target_side>>

\* Image sides explored
Sides ==
    {1, 2, target_side, max_dimension}
       \cup {k * max_dimension + d : k \in 1..MaxFactor, d \in {0, 1}}

Modes == {"RGB", "RGBA", "L"}

\* Uploaded byte contents. kind "valid": decodes fully; "truncated": the
\* header opens and verify() passes but the pixel data does not decode;
\* "corrupt": Image.open or verify() fails; "empty": no bytes at all.
NoImage == [kind |-> "empty", size |-> 0, width |-> 0, height |-> 0,
            mode |-> "", format |-> ""]
Contents ==
    {NoImage}
      \cup {[kind |-> "corrupt", size |-> 3, width |-> 0, height |-> 0,
             mode |-> "", format |-> ""]}
      \cup {[kind |-> "truncated", size |-> 3, width |-> target_side,
             height |-> target_side, mode |-> "RGB", format |-> "JPEG"]}
      \cup {[kind |-> "valid", size |-> 3, width |-> w, height |-> h,
             mode |-> m, format |-> "PNG"] :
               w \in Sides, h \in Sides, m \in Modes}

\* File names, as sequences of characters. AllowedNames end in one of the
\* allowed extensions in some letter case; RefusedNames are not empty and
\* do not.
AllowedNames ==
    {<<"a", ".", "p", "n", "g">>,
     <<"a", ".", "P", "N", "G">>,
     <<"a", ".", "J", "p", "e", "G">>,
     <<"a", ".", "t", "x", "t", ".", "j", "p", "g">>,
     <<".", "g", "i", "f">>,
     <<"a", ".", "w", "e", "b", "p">>}
RefusedNames ==
    {<<"a">>,
     <<"p", "n", "g">>,
     <<"a", ".">>,
     <<"a", ".", "t", "x", "t">>,
     <<"a", ".", "p", "n", "g", ".", "t", "x", "t">>,
     <<"a", ".", "p", "n", "g", "x">>}
FileNames == {<<>>} \cup AllowedNames \cup RefusedNames

\* str.lower() on the characters that occur in FileNames
LowerChar(c) ==
    CASE c = "P" -> "p" [] c = "N" -> "n" [] c = "G" -> "g"
      [] c = "J" -> "j" [] OTHER -> c
lower(str) == [i \in 1..Len(str) |-> LowerChar(str[i])]

\* '.' in filename
HasDot(filename) == \E i \in 1..Len(filename) : filename[i] = "."

\* filename.rsplit('.', 1)[1]: what follows the last '.'
LastDot(filename) ==
    CHOOSE i \in 1..Len(filename) :
        /\ filename[i] = "."
        /\ \A j \in (i + 1)..Len(filename) : filename[j] # "."
AfterLastDot(filename) ==
    SubSeq(filename, LastDot(filename) + 1, Len(filename))

\* Line 73
allowed_extensions ==
    {<<"p", "n", "g">>, <<"j", "p", "g">>, <<"j", "p", "e", "g">>,
     <<"g", "i", "f">>, <<"w", "e", "b", "p">>}

\* Lines 74-75: the file type test
AllowedCaseSensitive(filename) ==
    HasDot(filename) /\ AfterLastDot(filename) \in allowed_extensions
AllowedFileType(filename) ==
    HasDot(filename) /\ lower(AfterLastDot(filename)) \in allowed_extensions

\* The upload is a werkzeug FileStorage: a seekable stream that read()
\* consumes to its end, so that a second read() without seek(0) gets nothing.
\* file.read(): the bytes from the stream position to the end
read(pos, size) == size - pos

\* file.seek(0), lines 57, 62 and 128: the stream position afterwards
SeekForgotten(pos) == pos
seek0(pos) == 0

\* Image.open(io.BytesIO(file_content)) identifies an image: only in the
\* complete bytes of a file with an image header
Opens(content, nread) ==
    /\ nread = content.size
    /\ content.kind \in {"valid", "truncated"}

\* image.verify() after a successful open
Verifies(content) == content.kind \in {"valid", "truncated"}

\* The pixel data decodes (Image.load, run by resize and convert)
Decodes(content) == content.kind = "valid"

\* Lines 31-33: int(side * (max_dimension / max_dim)). The float product is
\* the exact quotient cut to an integer, except that where the quotient is
\* an integer and the scale is not a power of two the product may fall just
\* below it and int() then gives one less: `below` chooses that outcome.
IsPowerOfTwo(n) == \E k \in 0..30 : n = 2 ^ k
ScaledSides(side, max_dim) ==
    LET q == (side * max_dimension) \div max_dim
    IN  IF (side * max_dimension) % max_dim = 0 /\ ~IsPowerOfTwo(max_dim)
           THEN {q, q - 1}
           ELSE {q}

Max(a, b) == IF a >= b THEN a ELSE b

\* image.resize(size, LANCZOS): Pillow refuses a size with a side below 1
\* (ValueError: height and width must be > 0)
ResizeAccepts(size) == size[1] >= 1 /\ size[2] >= 1

NoImageInfo == [format |-> "", mode |-> "", width |-> 0, height |-> 0]
NoPreprocessed == [size |-> <<0, 0>>, mode |-> ""]

\* A request as it enters predict() in app.py
NewRequest(has_image, filename, content) ==
    [pc |-> "L54",
     has_image |-> has_image,
     filename |-> filename,
     content |-> content,
     pos |-> 0,
     steps |-> <<>>,
     image_info |-> NoImageInfo,
     resized |-> <<0, 0>>,
     preprocessed |-> NoPreprocessed,
     predict_called |-> FALSE,
     status |-> 0,
     success |-> FALSE,
     error |-> "",
     raised |-> "none"]

Requests ==
    {NewRequest(FALSE, <<>>, NoImage)}
       \cup {NewRequest(TRUE, f, c) : f \in FileNames, c \in Contents}

\* return jsonify({'success': False, 'error': error}), status
Respond(r, status, error, raised) ==
    [r EXCEPT !.pc = "done", !.status = status, !.success = FALSE,
              !.error = error, !.raised = raised]

\* A decode step begins: what it finds and reads is recorded
Enter(r, step) ==
    Append(r.steps, [step |-> step, pos |-> r.pos,
                     nread |-> read(r.pos, r.content.size)])

\* Lines 54-58: 'image' not in request.files
ReqCheckField ==
    /\ req.pc = "L54"
    /\ req' = IF ~req.has_image
                 THEN Respond(req, 400, "No image file provided", "none")
                 ELSE [req EXCEPT !.pc = "L63"]
    /\ UNCHANGED <<regVars, clf>>

\* Lines 60-67: file.filename == ''
ReqCheckFilename ==
    /\ req.pc = "L63"
    /\ req' = IF req.filename = <<>>
                 THEN Respond(req, 400, "No file selected", "none")
                 ELSE [req EXCEPT !.pc = "L74"]
    /\ UNCHANGED <<regVars, clf>>

\* Lines 72-79: the file type
ReqCheckExtension ==
    /\ req.pc = "L74"
    /\ req' = IF ~AllowedFileType(req.filename)
                 THEN Respond(req, 400,
                              "Invalid file type. Only images are allowed.",
                              "none")
                 ELSE [req EXCEPT !.pc = "L84"]
    /\ UNCHANGED <<regVars, clf>>

\* Lines 82-89 with validate_image (image_preprocessor.py 38-65): read,
\* open, verify, seek(0); any failure seeks 0 and raises ValueError
ReqValidate ==
    /\ req.pc = "L84"
    /\ LET nread == read(req.pos, req.content.size)
           entered == [req EXCEPT !.steps = Enter(req, "validate_image"),
                                  !.pos = seek0(req.content.size)]
       IN  req' = IF Opens(req.content, nread) /\ Verifies(req.content)
                     THEN [entered EXCEPT !.pc = "L95"]
                     ELSE Respond(entered, 400, "Invalid image file",
                                  "ValueError")
    /\ UNCHANGED <<regVars, clf>>

\* Line 95 with get_image_info (image_preprocessor.py 103-130): read, open,
\* report, seek(0). A failed open is an OSError, which line 137 answers.
ReqMetadata ==
    /\ req.pc = "L95"
    /\ LET nread == read(req.pos, req.content.size)
           entered == [req EXCEPT !.steps = Enter(req, "get_image_info"),
                                  !.pos = req.content.size]
       IN  req' = IF Opens(req.content, nread)
                     THEN [entered EXCEPT
                             !.pc = "L100",
                             !.pos = seek0(req.content.size),
                             !.image_info =
                                [format |-> req.content.format,
                                 mode |-> req.content.mode,
                                 width |-> req.content.width,
                                 height |-> req.content.height]]
                     ELSE Respond(entered, 500,
                                  "An error occurred during prediction",
                                  "OSError")
    /\ UNCHANGED <<regVars, clf>>

\* Line 100 with preprocess (image_preprocessor.py 67-101) and
\* _optimize_image_size (16-36): read, open, downscale when the longer side
\* exceeds max_dimension, convert to RGB, resize to target_size. A
\* ValueError is answered by line 130, any other exception by line 137.
ReqPreprocess ==
    /\ req.pc = "L100"
    /\ LET nread == read(req.pos, req.content.size)
           entered == [req EXCEPT !.steps = Enter(req, "preprocess"),
                                  !.pos = req.content.size]
           width == req.content.width
           height == req.content.height
           max_dim == Max(width, height)
       IN  IF ~Opens(req.content, nread) \/ ~Decodes(req.content)
              THEN req' = Respond(entered, 500,
                                  "An error occurred during prediction",
                                  "OSError")
           ELSE IF max_dim > max_dimension
              THEN \E new_width \in ScaledSides(width, max_dim),
                      new_height \in ScaledSides(height, max_dim) :
                     req' = IF ResizeAccepts(<<new_width, new_height>>)
                               THEN [entered EXCEPT
                                       !.pc = "L105",
                                       !.resized = <<new_width, new_height>>,
                                       !.preprocessed =
                                          [size |-> target_size,
                                           mode |-> "RGB"]]
                               ELSE Respond([entered EXCEPT !.resized =
                                                <<new_width, new_height>>],
                                            400, "Validation error",
                                            "ValueError")
              ELSE req' = [entered EXCEPT
                             !.pc = "L105",
                             !.resized = <<width, height>>,
                             !.preprocessed =
                                [size |-> target_size, mode |-> "RGB"]]
    /\ UNCHANGED <<regVars, clf>>

\* Lines 105-128: model.predict(preprocessed_image) on the model loaded at
\* line 27, then the 200 response (the prediction it carries is what
\* PredictResult describes and is left out of req)
ReqPredict ==
    /\ req.pc = "L105"
    /\ req' = IF clf.is_loaded
                 THEN [req EXCEPT !.pc = "done", !.predict_called = TRUE,
                                  !.status = 200, !.success = TRUE]
                 ELSE Respond([req EXCEPT !.predict_called = TRUE], 500,
                              "An error occurred during prediction",
                              "RuntimeError")
    /\ UNCHANGED <<regVars, clf>>

\* app.py line 27 has run: model = model_loader.load_model()
InitReq ==
    /\ RegistryInit
    /\ clf = [is_loaded |-> load(FALSE), loads |-> 1, last |-> NoOutcome]
    /\ req \in Requests

NextReq ==
    \/ ReqCheckField
    \/ ReqCheckFilename
    \/ ReqCheckExtension
    \/ ReqValidate
    \/ ReqMetadata
    \/ ReqPreprocess
    \/ ReqPredict

SpecReq == InitReq /\ [][NextReq]_vars

----------------------------------------------------------------------------
(* Claims about CraftClassifierModel *)

LastPredict == clf.last.op = "predict"
Predictions == clf.last.result.predictions

\* C4: a predict() made before any load() raises the model-not-loaded error,
\* returns no prediction and leaves is_loaded FALSE; once load() has been
\* called is_loaded is TRUE in every later state, and a predict() made after
\* a load() raises nothing and returns predictions.
C4_PredictNeedsLoad ==
    /\ clf.loads > 0 => clf.is_loaded
    /\ LastPredict =>
          IF clf.last.loadsAtCall = 0
             THEN /\ clf.last.exc = "RuntimeError"
                  /\ clf.last.result = NoResult
                  /\ clf.loads = 0 => ~clf.is_loaded
             ELSE /\ clf.last.exc = "none"
                  /\ Predictions # <<>>

\* C4 witness: load() was called twice and a later predict() succeeded.
C4_Witness ==
    /\ LastPredict
    /\ clf.last.loadsAtCall = 2
    /\ clf.last.exc = "none"

\* C5: a successful predict() returns Len(classes) = 8 entries, each label of
\* the fixed set exactly once, confidences non-increasing, and top_prediction
\* is the first entry.
C5_PredictionsSortedPermutation ==
    (LastPredict /\ clf.last.exc = "none") =>
       /\ Len(Predictions) = 8
       /\ \A c \in 1..Len(classes) :
             Cardinality({i \in 1..Len(Predictions) :
                            Predictions[i].class = classes[c]}) = 1
       /\ \A i \in 1..(Len(Predictions) - 1) :
             Predictions[i].confidence >= Predictions[i + 1].confidence
       /\ clf.last.result.top_prediction = Predictions[1]
       /\ \A i \in 1..Len(Predictions) :
             Predictions[i].confidence
                <= clf.last.result.top_prediction.confidence

\* C5 witness: a successful predict() whose sort moved the entries: the top
\* label is neither the first nor the last of the shuffled order.
C5_Witness ==
    /\ LastPredict /\ clf.last.exc = "none"
    /\ Predictions[1].class # clf.last.shuffled[1]
    /\ Predictions[1].class # clf.last.shuffled[Len(classes)]
    /\ Predictions[1].confidence > Predictions[2].confidence

\* C9: every confidence a successful predict() returns lies in [0, 1], and
\* the budget that remains for the last label is not negative.
C9_ConfidencesInUnitInterval ==
    (LastPredict /\ clf.last.exc = "none") =>
       /\ \A i \in 1..Len(Predictions) :
             /\ Predictions[i].confidence >= 0
             /\ Predictions[i].confidence <= 10 ^ ConfidenceDigits
       /\ clf.last.remaining >= 0

\* C9 witness: every draw took the upper end of its range, which leaves the
\* last label the least budget there can be (0.2 * 0.7^6, under 0.025).
C9_Witness ==
    /\ LastPredict /\ clf.last.exc = "none"
    /\ clf.last.remaining < One \div 40
    /\ clf.last.remaining > 0

----------------------------------------------------------------------------
(* Claims about the /predict handler and ImagePreprocessor *)

Rejected(error) ==
    /\ req.status = 400
    /\ ~req.success
    /\ req.error = error
    /\ ~req.predict_called

Undecodable == {"empty", "corrupt"}

\* C7: the handler tests, in this order, the missing 'image' field, the
\* empty file name, the extension (last suffix, any letter case) and the
\* image structure; the first test that fails answers 400 with success
\* false, the first three without reading the upload, and none of the four
\* with a call of model.predict; model.predict is called only when all four
\* passed.
C7_ChecksInOrder ==
    /\ req.pc = "done" =>
          /\ ~req.has_image =>
                (Rejected("No image file provided") /\ req.steps = <<>>)
          /\ (req.has_image /\ req.filename = <<>>) =>
                (Rejected("No file selected") /\ req.steps = <<>>)
          /\ (req.has_image /\ req.filename \in RefusedNames) =>
                (/\ Rejected("Invalid file type. Only images are allowed.")
                 /\ req.steps = <<>>)
          /\ (/\ req.has_image
              /\ req.filename \in AllowedNames
              /\ req.content.kind \in Undecodable) =>
                (Rejected("Invalid image file") /\ Len(req.steps) = 1)
    /\ req.predict_called =>
          /\ req.has_image
          /\ req.filename \in AllowedNames
          /\ req.content.kind \notin Undecodable

\* C7 witness: a file named a.txt that holds a valid image was refused for
\* its type.
C7_Witness ==
    /\ req.pc = "done"
    /\ req.filename = <<"a", ".", "t", "x", "t">>
    /\ req.content.kind = "valid"
    /\ req.status = 400

\* C8: the decode steps run in the order validate_image, get_image_info,
\* preprocess; each finds the stream at position 0 and reads the complete
\* upload; when validate_image fails the stream is left at position 0.
C8_EveryStepReadsWholeUpload ==
    /\ \A i \in 1..Len(req.steps) :
          /\ req.steps[i].pos = 0
          /\ req.steps[i].nread = req.content.size
          /\ req.steps[i].step =
                <<"validate_image", "get_image_info", "preprocess">>[i]
    /\ (req.pc = "done" /\ Len(req.steps) = 1) => req.pos = 0

\* C8 witness: a request answered 200 after all three steps read a
\* non-empty upload.
C8_Witness ==
    /\ req.pc = "done"
    /\ req.status = 200
    /\ Len(req.steps) = 3
    /\ req.content.size > 0

\* C6: for every decoded image, of any width and height above 0, preprocess
\* completes and returns an image of exactly target_size.
C6_PreprocessReturnsTargetSize ==
    (/\ req.content.kind = "valid"
     /\ Len(req.steps) = 3)
       => req.preprocessed.size = target_size

====
